---- MODULE Spec2Model ----
(***************************************************************************)
(* wa-sticker-formatter: the adaptive video -> animated WebP conversion    *)
(* (the quality ladder walked by videoToGif / adaptiveVideoToWebp) and the *)
(* WhatsApp compliance validator (WhatsAppValidator.validateSticker).      *)
(*                                                                         *)
(* The codec (ffmpeg), the file system, file-type sniffing and sharp are   *)
(* external: every outcome they can report is a nondeterministic choice.   *)
(***************************************************************************)
EXTENDS Integers, Sequences, FiniteSets, TLC

VARIABLES
    \* ---- one video-conversion call ----
    variant,        \* which videoToGif implementation runs
    data,           \* the input buffer: its length and what the pre-check sees
    targetSize,     \* the byte ceiling of the call
    qualityLevels,  \* the ladder of the call
    i,              \* 1-based position in qualityLevels
    pc,             \* position of the call
    result,         \* `let result: Buffer | null`
    outcome,        \* "pending", "returned" or "raised"
    error,          \* what was raised
    invocations,    \* codec requests issued so far, in issue order
    attempts,       \* what each ladder attempt produced, in ladder order
    inflight,       \* codec invocations started and not yet completed
    files,          \* temporary files that exist
    \* ---- one validateSticker call ----
    buffer,         \* the buffer argument
    metadata,       \* the metadata argument
    vpc,            \* position of the call
    isAnimated,     \* `const isAnimated`
    validation,     \* `const result: IWhatsAppValidationResult`
    voutcome,       \* "pending", "report" or "thrown"
    previous,       \* what the earlier calls on the same arguments ended with
    \* ---- one compliance call on the Sticker class ----
    method,         \* which method of Sticker was called
    sticker,        \* the instance: what `data` is and `this.metadata`
    spc,            \* position of the call
    built,          \* how `await this.build()` ended
    soutcome,       \* "pending", "report", "text" or "rejected"
    serror,         \* what the call rejected with
    reportText      \* the lines of the compliance report text

tvars == <<variant, data, targetSize, qualityLevels, i, pc, result, outcome,
           error, invocations, attempts, inflight, files>>
vvars == <<buffer, metadata, vpc, isAnimated, validation, voutcome, previous>>
svars == <<method, sticker, spc, built, soutcome, serror, reportText>>
vars == <<variant, data, targetSize, qualityLevels, i, pc, result, outcome,
          error, invocations, attempts, inflight, files,
          buffer, metadata, vpc, isAnimated, validation, voutcome, previous,
          method, sticker, spc, built, soutcome, serror, reportText>>

----------------------------------------------------------------------------
(* Bounds of the model. *)

\* how many bytes past a size ceiling the enumerated buffers go
MaxOver == 1
\* how many characters past a length ceiling the enumerated strings go
MaxExcess == 1

----------------------------------------------------------------------------
(* WHATSAPP_LIMITS *)

STATIC_MAX_SIZE == 100 * 1024
ANIMATED_MAX_SIZE == 500 * 1024
STICKER_SIZE == 512
PACK_NAME_MAX_LENGTH == 128
AUTHOR_MAX_LENGTH == 128
ID_MAX_LENGTH == 128
MAX_CATEGORIES_PER_STICKER == 3
MAX_ANIMATION_DURATION == 10
MIN_FRAME_DURATION == 8
RECOMMENDED_FILE_SIZE == 15 * 1024

----------------------------------------------------------------------------
(* The video conversion. *)

Variants == {"optimized", "adaptive", "fallback", "precheck"}

\* the same entries listed from worst to best
QualityLevelsOptimizedAscending ==
    << [quality |-> 25, fps |-> 5,  duration |-> 3, compression |-> 6, method |-> 6],
       [quality |-> 30, fps |-> 6,  duration |-> 4, compression |-> 6, method |-> 6],
       [quality |-> 40, fps |-> 8,  duration |-> 5, compression |-> 6, method |-> 6],
       [quality |-> 50, fps |-> 10, duration |-> 6, compression |-> 5, method |-> 4] >>
\* src/internal/videoToGif_optimized.ts
QualityLevelsOptimized ==
    << [quality |-> 50, fps |-> 10, duration |-> 6, compression |-> 5, method |-> 4],
       [quality |-> 40, fps |-> 8,  duration |-> 5, compression |-> 6, method |-> 6],
       [quality |-> 30, fps |-> 6,  duration |-> 4, compression |-> 6, method |-> 6],
       [quality |-> 25, fps |-> 5,  duration |-> 3, compression |-> 6, method |-> 6] >>

\* adaptiveVideoToWebp; '-method' is the literal '6' for every entry
QualityLevelsAdaptive ==
    << [quality |-> 60, fps |-> 12, duration |-> 8, compression |-> 4, method |-> 6],
       [quality |-> 50, fps |-> 10, duration |-> 6, compression |-> 5, method |-> 6],
       [quality |-> 40, fps |-> 8,  duration |-> 5, compression |-> 6, method |-> 6],
       [quality |-> 30, fps |-> 6,  duration |-> 4, compression |-> 6, method |-> 6],
       [quality |-> 20, fps |-> 5,  duration |-> 3, compression |-> 6, method |-> 6] >>

\* the pre-check variant: `inputSizeKB <= 600` with inputSizeKB = length / 1024
StartFromHighQuality(d) == d.length <= 600 * 1024

QualityLevelsPrecheck(d) ==
    (IF StartFromHighQuality(d)
       THEN << [quality |-> 70, fps |-> 12, duration |-> 10, compression |-> 4, method |-> 4] >>
       ELSE << >>)
    \o
    << [quality |-> 50, fps |-> 10, duration |-> 10, compression |-> 5, method |-> 4],
       [quality |-> 40, fps |-> 8,  duration |-> 6,  compression |-> 6, method |-> 6],
       [quality |-> 30, fps |-> 6,  duration |-> 5,  compression |-> 6, method |-> 6],
       [quality |-> 25, fps |-> 5,  duration |-> 4,  compression |-> 6, method |-> 6] >>

QualityLevelsOf(v, d) ==
    CASE v = "optimized" -> QualityLevelsOptimized
      [] v = "precheck"  -> QualityLevelsPrecheck(d)
      [] OTHER           -> QualityLevelsAdaptive

\* the '-t', 'fps=', '-q:v', '-compression_level', '-method' and mpdecimate
\* options of the ffmpeg command built for ladder entry k (1-based)
LadderRequest(v, settings, k) ==
    [origin      |-> "ladder",
     t           |-> settings.duration,
     fps         |-> settings.fps,
     q           |-> settings.quality,
     compression |-> settings.compression,
     method      |-> settings.method,
     mpdecimate  |-> IF v \in {"adaptive", "fallback"} THEN TRUE ELSE k - 1 > 1]

\* the command of the fallback conversion in videoToGif (adaptive file)
FallbackRequest ==
    [origin |-> "fallback", t |-> 5, fps |-> 8, q |-> 35, compression |-> 6,
     method |-> 6, mpdecimate |-> FALSE]

\* the temporary files of a call: `${filename}.video`, `${filename}_q${quality}.webp`
\* of ladder entry k, and the video file of the fallback conversion
VideoFile == <<"video", 0>>
WebpFile(k) == <<"webp", k>>
FallbackVideoFile == <<"fallbackVideo", 0>>

NullBuffer == [src |-> "null", idx |-> 0, size |-> 0]

\* a buffer is known by where it came from and by its length
InputBuffer(d) == [src |-> "input", idx |-> 0, size |-> d.length]
LadderBuffer(k, size) == [src |-> "ladder", idx |-> k, size |-> size]
FallbackBuffer(size) == [src |-> "fallback", idx |-> 0, size |-> size]

\* the sizes a codec output can have: the second preset of the spec's scenario,
\* the ceiling itself, just past it, and the first preset of the scenario
OutputSizes ==
    {420 * 1024, 600 * 1024} \cup {ANIMATED_MAX_SIZE + d : d \in 0..MaxOver}

InputSizes == {420 * 1024, 600 * 1024, 600 * 1024 + MaxOver}

\* the comparison written with `<`
FitsTargetStrict(size, target) == size < target
\* `buffer.length <= targetSize`
FitsTarget(size, target) == size <= target

\* the pre-check without its size test
PreCheckPassesAnySize(v, d, target) ==
    /\ v = "precheck"
    /\ d.webp
    /\ d.dims512

\* the pre-check of the pre-check variant: the input is returned as it is when
\* it sniffs as image/webp, is within the target and sharp reports 512x512
PreCheckPasses(v, d, target) ==
    /\ v = "precheck"
    /\ d.webp
    /\ d.length <= target
    /\ d.dims512

\* the catch block of the loop body: does the failure of entry k leave the call?
ThrowsOnFailureAny(v, k, n) == TRUE
ThrowsOnFailure(v, k, n) == v \in {"optimized", "precheck"} /\ k = n

\* no Sticker instance is involved in the call
NoSticker == [data |-> "none", metadata |-> [pack |-> << >>]]
\* `this.build()` has not ended (or was never called)
NotBuilt == [state |-> "none", buffer |-> [typed |-> FALSE], error |-> "none"]

\* a call of any implementation on any input; only the pre-check variant
\* reads what the input sniffs as, so the other variants start from one value
TranscodeInit ==
    /\ variant \in Variants
    /\ data \in [length : InputSizes, webp : BOOLEAN, dims512 : BOOLEAN]
    /\ (variant # "precheck" => data.webp = FALSE /\ data.dims512 = FALSE)
    /\ targetSize = ANIMATED_MAX_SIZE
    /\ qualityLevels = << >>
    /\ i = 1
    /\ pc = "start"
    /\ result = NullBuffer
    /\ outcome = "pending"
    /\ error = "none"
    /\ invocations = << >>
    /\ attempts = << >>
    /\ inflight = 0
    /\ files = {}
    \* no validation is running
    /\ buffer = [typed |-> FALSE]
    /\ metadata = [pack |-> << >>]
    /\ vpc = "idle"
    /\ isAnimated = FALSE
    /\ validation = [isValid |-> TRUE]
    /\ voutcome = "pending"
    /\ previous = << >>
    /\ method = "none"
    /\ sticker = NoSticker
    /\ spc = "idle"
    /\ built = NotBuilt
    /\ soutcome = "pending"
    /\ serror = "none"
    /\ reportText = << >>

\* entry of the call up to the loop: pre-check, writeFile(video), the ladder
Begin ==
    /\ pc = "start"
    /\ IF PreCheckPasses(variant, data, targetSize)
         THEN /\ result' = InputBuffer(data)
              /\ outcome' = "returned"
              /\ pc' = "done"
              /\ UNCHANGED <<qualityLevels, files>>
         ELSE /\ files' = files \cup {VideoFile}
              /\ qualityLevels' = QualityLevelsOf(variant, data)
              /\ pc' = "loop"
              /\ UNCHANGED <<result, outcome>>
    /\ UNCHANGED <<variant, data, targetSize, i, error, invocations, attempts, inflight>>
    /\ UNCHANGED vvars
    /\ UNCHANGED svars

\* loop head: the ffmpeg command of entry i is built and started
StartEncode ==
    /\ pc = "loop"
    /\ i <= Len(qualityLevels)
    /\ invocations' = Append(invocations, LadderRequest(variant, qualityLevels[i], i))
    /\ inflight' = inflight + 1
    /\ pc' = "encoding"
    /\ UNCHANGED <<variant, data, targetSize, qualityLevels, i, result, outcome,
                   error, attempts, files>>
    /\ UNCHANGED vvars
    /\ UNCHANGED svars

\* where the loop goes after the body of entry k ended without break or throw
AfterIteration(k, n) == IF k + 1 > n THEN "cleanup" ELSE "loop"

\* the loop body without its `break`
AdvanceNoBreak(accepted, k, n) == [i |-> k + 1, pc |-> AfterIteration(k, n)]
\* the end of a successful loop body: `break` when the buffer was accepted,
\* the next entry otherwise
Advance(accepted, k, n) ==
    IF accepted
      THEN [i |-> k, pc |-> "cleanup"]
      ELSE [i |-> k + 1, pc |-> AfterIteration(k, n)]

\* 'end' fires, readFile succeeds, the attempt's file is unlinked, the size
\* is compared
EncodeSucceeds(size) ==
    /\ pc = "encoding"
    /\ inflight' = inflight - 1
    /\ attempts' = Append(attempts, [ok |-> TRUE, size |-> size])
    /\ UNCHANGED files
    /\ result' = IF FitsTarget(size, targetSize) \/ i = Len(qualityLevels)
                   THEN LadderBuffer(i, size)
                   ELSE result
    /\ i' = Advance(FitsTarget(size, targetSize), i, Len(qualityLevels)).i
    /\ pc' = Advance(FitsTarget(size, targetSize), i, Len(qualityLevels)).pc
    /\ UNCHANGED <<variant, data, targetSize, qualityLevels, outcome, error, invocations>>
    /\ UNCHANGED vvars
    /\ UNCHANGED svars

\* the catch block: on the last entry two of the implementations rethrow,
\* leaving the call before the video file is unlinked
CatchAttempt(cause) ==
    IF ThrowsOnFailure(variant, i, Len(qualityLevels))
      THEN /\ outcome' = "raised"
           /\ error' = cause
           /\ pc' = "done"
           /\ UNCHANGED i
      ELSE /\ i' = i + 1
           /\ pc' = AfterIteration(i, Len(qualityLevels))
           /\ UNCHANGED <<outcome, error>>

\* 'error' fires: the promise rejects
EncodeFails ==
    /\ pc = "encoding"
    /\ inflight' = inflight - 1
    /\ attempts' = Append(attempts, [ok |-> FALSE, size |-> 0])
    /\ CatchAttempt("codec")
    /\ UNCHANGED <<variant, data, targetSize, qualityLevels, result, invocations, files>>
    /\ UNCHANGED vvars
    /\ UNCHANGED svars

\* 'end' fires but readFile rejects: the attempt's file stays behind
ReadFails ==
    /\ pc = "encoding"
    /\ inflight' = inflight - 1
    /\ attempts' = Append(attempts, [ok |-> FALSE, size |-> 0])
    /\ files' = files \cup {WebpFile(i)}
    /\ CatchAttempt("read")
    /\ UNCHANGED <<variant, data, targetSize, qualityLevels, result, invocations>>
    /\ UNCHANGED vvars
    /\ UNCHANGED svars

\* after the loop: unlink(video), then `if (!result) throw`, else return.  In
\* videoToGif of the adaptive file the throw is caught and the fallback
\* conversion starts: writeFile(video) and a new ffmpeg command
Cleanup ==
    /\ pc = "cleanup"
    /\ IF result = NullBuffer
         THEN IF variant = "fallback"
                THEN /\ files' = (files \ {VideoFile}) \cup {FallbackVideoFile}
                     /\ invocations' = Append(invocations, FallbackRequest)
                     /\ inflight' = inflight + 1
                     /\ pc' = "fallbackEncoding"
                     /\ UNCHANGED <<outcome, error>>
                ELSE /\ files' = files \ {VideoFile}
                     /\ outcome' = "raised"
                     /\ error' = "exhausted"
                     /\ pc' = "done"
                     /\ UNCHANGED <<invocations, inflight>>
         ELSE /\ files' = files \ {VideoFile}
              /\ outcome' = "returned"
              /\ pc' = "done"
              /\ UNCHANGED <<error, invocations, inflight>>
    /\ UNCHANGED <<variant, data, targetSize, qualityLevels, i, result, attempts>>
    /\ UNCHANGED vvars
    /\ UNCHANGED svars

\* the fallback conversion ends: readFile, unlink both files, return
FallbackSucceeds(size) ==
    /\ pc = "fallbackEncoding"
    /\ inflight' = inflight - 1
    /\ result' = FallbackBuffer(size)
    /\ files' = files \ {FallbackVideoFile}
    /\ outcome' = "returned"
    /\ pc' = "done"
    /\ UNCHANGED <<variant, data, targetSize, qualityLevels, i, error, invocations, attempts>>
    /\ UNCHANGED vvars
    /\ UNCHANGED svars

\* the fallback conversion rejects: nothing catches it
FallbackFails ==
    /\ pc = "fallbackEncoding"
    /\ inflight' = inflight - 1
    /\ outcome' = "raised"
    /\ error' = "codec"
    /\ pc' = "done"
    /\ UNCHANGED <<variant, data, targetSize, qualityLevels, i, result, invocations,
                   attempts, files>>
    /\ UNCHANGED vvars
    /\ UNCHANGED svars

TranscodeNext ==
    \/ Begin
    \/ StartEncode
    \/ \E size \in OutputSizes : EncodeSucceeds(size)
    \/ EncodeFails
    \/ ReadFails
    \/ Cleanup
    \/ \E size \in OutputSizes : FallbackSucceeds(size)
    \/ FallbackFails

SpecTranscode == TranscodeInit /\ [][TranscodeNext]_vars

\* what the promise of a conversion resolves to: `Promise<Buffer>`, the bare
\* buffer (`return result`, `return data`, `return buffer`)
ReturnValue == [buffer |-> result]

----------------------------------------------------------------------------
(* Properties of the video conversion. *)

LadderInvocations == SelectSeq(invocations, LAMBDA r : r.origin = "ladder")

Fitting(k) == attempts[k].ok /\ attempts[k].size <= targetSize

\* C1: a returned buffer of size <= targetSize that the ladder produced (every
\* return of the optimized variant and of adaptiveVideoToWebp) is the output
\* of the first ladder entry that succeeded with size <= targetSize, equality
\* included, and every earlier entry failed or was strictly larger.
C1_FirstFitAcceptance ==
    (/\ outcome = "returned"
     /\ result.size <= targetSize
     /\ (variant \in {"optimized", "adaptive"} \/ result.src = "ladder"))
    => \E k \in 1..Len(attempts) :
          /\ Fitting(k)
          /\ result = [src |-> "ladder", idx |-> k, size |-> attempts[k].size]
          /\ \A j \in 1..(k - 1) : ~attempts[j].ok \/ attempts[j].size > targetSize

\* a later entry is accepted with a size exactly equal to the target after
\* an oversized first entry
C1_Witness ==
    /\ outcome = "returned"
    /\ result.src = "ladder"
    /\ result.idx >= 2
    /\ result.size = targetSize
    /\ attempts[1].ok
    /\ attempts[1].size > targetSize

\* C2: if at least one codec invocation of the call produced a buffer, the
\* call returns a buffer and does not raise.
C2_ReturnsWhenAnySucceeded ==
    (pc = "done" /\ \E k \in 1..Len(attempts) : attempts[k].ok)
    => outcome = "returned"

\* C3: if every codec invocation of the ladder failed, the call raises the
\* exhaustion failure itself, returns no buffer and attempts no further
\* conversion.
C3_ExhaustionFailure ==
    (/\ pc = "done"
     /\ Len(qualityLevels) > 0
     /\ Len(attempts) = Len(qualityLevels)
     /\ \A k \in 1..Len(attempts) : ~attempts[k].ok)
    => /\ outcome = "raised"
       /\ error = "exhausted"
       /\ result = NullBuffer
       /\ Len(invocations) = Len(qualityLevels)

\* C4: when no entry's output fits the target but some entry produced an
\* output, the call returns the output of the last entry that produced one.
C4_LastValidOutput ==
    (/\ pc = "done"
     /\ \E k \in 1..Len(attempts) : attempts[k].ok
     /\ \A k \in 1..Len(attempts) : ~Fitting(k))
    => \E k \in 1..Len(attempts) :
          /\ attempts[k].ok
          /\ \A j \in (k + 1)..Len(attempts) : ~attempts[j].ok
          /\ outcome = "returned"
          /\ result = [src |-> "ladder", idx |-> k, size |-> attempts[k].size]

\* C5: the value a conversion returns carries a withinTarget flag, true
\* exactly when the returned buffer's size is <= targetSize.
C5_WithinTargetFlag ==
    outcome = "returned"
    => /\ "withinTarget" \in DOMAIN ReturnValue
       /\ ReturnValue.withinTarget = (result.size <= targetSize)

\* C6: every buffer the video conversion returns is at most
\* ANIMATED_MAX_SIZE bytes long.
C6_ReturnedWithinAnimatedLimit ==
    outcome = "returned" => result.size <= ANIMATED_MAX_SIZE

\* C7: the codec is invoked for the ladder entries in declared order, one at
\* a time, each at most once; exactly k times when entry k is accepted,
\* once per entry when none is; twice in the 600 KiB / 420 KiB scenario.
C7_SequentialInOrder ==
    /\ inflight \in {0, 1}
    /\ Len(LadderInvocations) <= Len(qualityLevels)
    /\ \A j \in 1..Len(LadderInvocations) :
          LadderInvocations[j] = LadderRequest(variant, qualityLevels[j], j)
    /\ \A j, k \in 1..Len(LadderInvocations) :
          j # k => LadderInvocations[j] # LadderInvocations[k]
    /\ Len(attempts) + inflight = Len(invocations)
          \/ (pc \in {"fallbackEncoding", "done"} /\ variant = "fallback")
    /\ (pc = "done" /\ Len(qualityLevels) > 0)
       => IF \E k \in 1..Len(attempts) : Fitting(k)
            THEN /\ outcome = "returned"
                 /\ Fitting(result.idx)
                 /\ Len(invocations) = result.idx
            ELSE Len(LadderInvocations) = Len(qualityLevels)
    /\ (/\ pc = "done"
        /\ Len(attempts) >= 2
        /\ attempts[1] = [ok |-> TRUE, size |-> 600 * 1024]
        /\ attempts[2] = [ok |-> TRUE, size |-> 420 * 1024])
       => /\ Len(invocations) = 2
          /\ outcome = "returned"
          /\ result = [src |-> "ladder", idx |-> 2, size |-> 420 * 1024]

\* the scenario of the specification: 600 KiB, then 420 KiB, target 500 KiB
C7_Witness ==
    /\ pc = "done"
    /\ targetSize = 500 * 1024
    /\ Len(attempts) = 2
    /\ attempts[1] = [ok |-> TRUE, size |-> 600 * 1024]
    /\ attempts[2] = [ok |-> TRUE, size |-> 420 * 1024]
    /\ Len(invocations) = 2

----------------------------------------------------------------------------
(* The compliance validator. *)

\* a string is the sequence of its characters
Str(c, n) == [j \in 1..n |-> c]

\* what a buffer argument is, as far as the validator can tell: whether it is
\* a Buffer at all (a caller may pass null or undefined), its length, what
\* file-type sniffs, whether sharp can decode it and what sharp reports
\* (pages = 0 stands for `pages === undefined`)
NotABuffer ==
    [typed |-> FALSE, length |-> 0, mime |-> "none", decodable |-> FALSE,
     width |-> 0, height |-> 0, pages |-> 0]

BufferSizes ==
    UNION { {3 * RECOMMENDED_FILE_SIZE + d, STATIC_MAX_SIZE + d, ANIMATED_MAX_SIZE + d}
            : d \in 0..MaxOver }

Mimes == {"none", "image/webp", "image/gif", "image/png"}

FrameCounts == {0, 1, 2} \cup {150 + d : d \in 0..MaxOver}

Undecodable(len, mime) ==
    [typed |-> TRUE, length |-> len, mime |-> mime, decodable |-> FALSE,
     width |-> 0, height |-> 0, pages |-> 0]

Decodable(len, mime, w, h, p) ==
    [typed |-> TRUE, length |-> len, mime |-> mime, decodable |-> TRUE,
     width |-> w, height |-> h, pages |-> p]

AllBuffers ==
    {NotABuffer}
    \cup {Undecodable(len, mime) : len \in BufferSizes, mime \in Mimes}
    \cup {Decodable(x[1], x[2], x[3], x[4], x[5]) :
            x \in BufferSizes \X Mimes \X {STICKER_SIZE - 1, STICKER_SIZE}
                  \X {STICKER_SIZE - 1, STICKER_SIZE} \X FrameCounts}

FewBuffers ==
    {NotABuffer,
     Undecodable(STATIC_MAX_SIZE, "image/webp"),
     Undecodable(ANIMATED_MAX_SIZE + 1, "none"),
     Decodable(3 * RECOMMENDED_FILE_SIZE, "image/webp", STICKER_SIZE, STICKER_SIZE, 1),
     Decodable(STATIC_MAX_SIZE + 1, "image/png", STICKER_SIZE - 1, STICKER_SIZE, 0),
     Decodable(ANIMATED_MAX_SIZE, "image/webp", STICKER_SIZE, STICKER_SIZE, 151)}

\* an optional metadata field
Absent == [present |-> FALSE, value |-> << >>]
Given(v) == [present |-> TRUE, value |-> v]

GoodId == <<"a", "_", "b", "-", "c", ".", "d", " ", "e">>
BadId == <<"a", "@", "b">>

PackValues ==
    {Absent, Given(Str("A", 140))}
    \cup {Given(Str("A", PACK_NAME_MAX_LENGTH + d)) : d \in 0..MaxExcess}
AuthorValues ==
    {Absent, Given(<<"o", "k">>)}
    \cup {Given(Str("B", AUTHOR_MAX_LENGTH + d)) : d \in 0..MaxExcess}
IdValues ==
    {Absent, Given(GoodId), Given(BadId)}
    \cup {Given(Str("c", ID_MAX_LENGTH + d)) : d \in 0..MaxExcess}
    \cup {Given(Str("c", ID_MAX_LENGTH + d - 1) \o <<"@">>) : d \in 0..MaxExcess}
CategoriesValues ==
    {Absent}
    \cup {Given(Str("emoji", n)) : n \in 0..(MAX_CATEGORIES_PER_STICKER + MaxExcess)}

AllMetadata ==
    [pack : PackValues, author : AuthorValues, id : IdValues,
     categories : CategoriesValues]

FewMetadata ==
    {[pack |-> Absent, author |-> Absent, id |-> Absent, categories |-> Absent],
     [pack |-> Given(Str("A", 140)), author |-> Given(<<"o", "k">>), id |-> Absent,
      categories |-> Given(<< >>)],
     [pack |-> Given(Str("A", PACK_NAME_MAX_LENGTH)), author |-> Given(<<"o", "k">>),
      id |-> Given(GoodId), categories |-> Given(Str("emoji", 2))],
     [pack |-> Given(Str("A", PACK_NAME_MAX_LENGTH + 1)),
      author |-> Given(Str("B", AUTHOR_MAX_LENGTH + 1)),
      id |-> Given(BadId),
      categories |-> Given(Str("emoji", MAX_CATEGORIES_PER_STICKER + 1))]}

\* `x || ''`, `x || []`
OrEmpty(o) == IF o.present THEN o.value ELSE << >>

\* an entry of errors or warnings: which message, the fault or kind it embeds,
\* and the numbers it prints
Message(text, detail, args) == [text |-> text, detail |-> detail, args |-> args]

\* (n / 1024).toFixed(1), in tenths of a KB
ToFixed1KB(n) == (n * 20 + 1024) \div 2048

\* the report as constructed on entry
InitialResult ==
    [isValid |-> TRUE,
     errors |-> << >>,
     warnings |-> << >>,
     fileSize |-> [size |-> 0, isValid |-> TRUE, limit |-> 0, type |-> "static"],
     dimensions |-> [width |-> 0, height |-> 0, isValid |-> TRUE],
     metadata |->
        [pack |-> [value |-> << >>, isValid |-> TRUE, limit |-> PACK_NAME_MAX_LENGTH],
         author |-> [value |-> << >>, isValid |-> TRUE, limit |-> AUTHOR_MAX_LENGTH],
         id |-> [value |-> << >>, isValid |-> TRUE, limit |-> ID_MAX_LENGTH],
         categories |-> [value |-> << >>, isValid |-> TRUE, count |-> 0,
                         limit |-> MAX_CATEGORIES_PER_STICKER]]]

\* isAnimatedSticker: every fault inside (fromBuffer on a non-Buffer, sharp on
\* an undecodable buffer) is caught and answered with false
IsAnimatedSticker(b) ==
    IF ~b.typed THEN FALSE
    ELSE IF b.mime = "none" THEN FALSE
    ELSE IF b.mime = "image/webp"
           THEN IF ~b.decodable THEN FALSE ELSE b.pages # 0 /\ b.pages > 1
    ELSE b.mime = "image/gif"

\* the size comparison written with `<`
WithinSizeLimitStrict(size, limit) == size < limit
\* `size <= limit`
WithinSizeLimit(size, limit) == size <= limit

\* validateFileSize; `buffer.length` of a non-Buffer throws before any write
FileSizeThrows(b) == ~b.typed

\* the advisory comparison written with `>=`
MuchLargerThanRecommendedInclusive(size) == size >= RECOMMENDED_FILE_SIZE * 3
\* `size > WHATSAPP_LIMITS.RECOMMENDED_FILE_SIZE * 3`
MuchLargerThanRecommended(size) == size > RECOMMENDED_FILE_SIZE * 3

\* the size check that clears the flag and reports no error
ValidateFileSizeSilent(b, anim, r) ==
    [r EXCEPT !.fileSize.size = b.length,
              !.fileSize.limit = IF anim THEN ANIMATED_MAX_SIZE ELSE STATIC_MAX_SIZE,
              !.fileSize.isValid =
                  b.length <= (IF anim THEN ANIMATED_MAX_SIZE ELSE STATIC_MAX_SIZE)]
\* validateFileSize: size, limit and flag, the error, the advisory
ValidateFileSize(b, anim, r) ==
    LET size == b.length
        limit == IF anim THEN ANIMATED_MAX_SIZE ELSE STATIC_MAX_SIZE
        ok == WithinSizeLimit(size, limit)
        r1 == [r EXCEPT !.fileSize.size = size,
                        !.fileSize.limit = limit,
                        !.fileSize.isValid = ok]
        r2 == IF ~ok
                THEN [r1 EXCEPT !.errors = Append(@,
                        Message("File size exceeds WhatsApp limit",
                                IF anim THEN "animated" ELSE "static",
                                <<ToFixed1KB(size), ToFixed1KB(limit)>>))]
                ELSE r1
    IN  IF MuchLargerThanRecommended(size)
          THEN [r2 EXCEPT !.warnings = Append(@,
                  Message("File size is much larger than the recommended ~15KB",
                          "", <<ToFixed1KB(size)>>))]
          ELSE r2

\* the dimension test written with `||`
DimensionsOkEither(w, h) == w = STICKER_SIZE \/ h = STICKER_SIZE
\* `width === STICKER_SIZE && height === STICKER_SIZE`
DimensionsOk(w, h) == w = STICKER_SIZE /\ h = STICKER_SIZE

\* validateDimensions whose catch block omits `result.dimensions.isValid = false`
ValidateDimensionsKeepsValid(b, r) ==
    IF b.decodable
      THEN LET ok == DimensionsOk(b.width, b.height)
               r1 == [r EXCEPT !.dimensions.width = b.width,
                               !.dimensions.height = b.height,
                               !.dimensions.isValid = ok]
           IN  IF ~ok
                 THEN [r1 EXCEPT !.errors = Append(@,
                         Message("Sticker dimensions must be exactly 512x512 pixels",
                                 "", <<b.width, b.height>>))]
                 ELSE r1
      ELSE [r EXCEPT !.errors = Append(@,
               Message("Failed to read sticker dimensions", "decode", << >>))]

\* validateDimensions: sharp's fault is caught inside
ValidateDimensions(b, r) ==
    IF b.decodable
      THEN LET ok == DimensionsOk(b.width, b.height)
               r1 == [r EXCEPT !.dimensions.width = b.width,
                               !.dimensions.height = b.height,
                               !.dimensions.isValid = ok]
           IN  IF ~ok
                 THEN [r1 EXCEPT !.errors = Append(@,
                         Message("Sticker dimensions must be exactly 512x512 pixels",
                                 "", <<b.width, b.height>>))]
                 ELSE r1
      ELSE [r EXCEPT !.errors = Append(@,
               Message("Failed to read sticker dimensions", "decode", << >>)),
                     !.dimensions.isValid = FALSE]

Lower == {"a", "b", "c", "d", "e", "f", "g", "h", "i", "j", "k", "l", "m",
          "n", "o", "p", "q", "r", "s", "t", "u", "v", "w", "x", "y", "z"}
Upper == {"A", "B", "C", "D", "E", "F", "G", "H", "I", "J", "K", "L", "M",
          "N", "O", "P", "Q", "R", "S", "T", "U", "V", "W", "X", "Y", "Z"}
Digits == {"0", "1", "2", "3", "4", "5", "6", "7", "8", "9"}

\* the character class without the space
IdFormatOkNoSpace(id) ==
    /\ Len(id) > 0
    /\ \A j \in 1..Len(id) : id[j] \in Lower \cup Upper \cup Digits \cup {"_", "-", "."}

\* /^[a-zA-Z0-9_\-. ]+$/.test(id)
IdFormatOk(id) ==
    /\ Len(id) > 0
    /\ \A j \in 1..Len(id) : id[j] \in Lower \cup Upper \cup Digits \cup {"_", "-", ".", " "}

\* the length test written with `>=`
ExceedsLengthInclusive(len, limit) == len >= limit
\* `pack.length > PACK_NAME_MAX_LENGTH`, and the same test for author and id
ExceedsLength(len, limit) == len > limit

\* the category test written with `>=`
TooManyCategoriesInclusive(n) == n >= MAX_CATEGORIES_PER_STICKER
\* `categories.length > MAX_CATEGORIES_PER_STICKER`
TooManyCategories(n) == n > MAX_CATEGORIES_PER_STICKER

\* the stroke advisory pushed only next to the categories warning
MetadataWarningsNested(categories) ==
    IF Len(categories) = 0
      THEN <<Message("No emoji categories provided", "", << >>),
             Message("Consider adding an 8px white stroke", "", << >>)>>
      ELSE << >>
\* the warnings of validateMetadata: the categories warning when there are
\* none, then the stroke advisory, unconditionally
MetadataWarnings(categories) ==
    (IF Len(categories) = 0
       THEN <<Message("No emoji categories provided", "", << >>)>>
       ELSE << >>)
    \o <<Message("Consider adding an 8px white stroke", "", << >>)>>

\* validateMetadata with the author test reading pack.length
ValidateMetadataAuthorFromPack(m, r) ==
    LET pack == OrEmpty(m.pack)
        author == OrEmpty(m.author)
        id == OrEmpty(m.id)
        categories == OrEmpty(m.categories)
        packBad == ExceedsLength(Len(pack), PACK_NAME_MAX_LENGTH)
        authorBad == ExceedsLength(Len(pack), AUTHOR_MAX_LENGTH)
        idLong == ExceedsLength(Len(id), ID_MAX_LENGTH)
        idChars == Len(id) > 0 /\ ~IdFormatOk(id)
        catsBad == TooManyCategories(Len(categories))
        errs ==
            (IF packBad
               THEN <<Message("Pack name exceeds character limit", "", <<PACK_NAME_MAX_LENGTH>>)>>
               ELSE << >>)
            \o (IF authorBad
               THEN <<Message("Author name exceeds character limit", "", <<AUTHOR_MAX_LENGTH>>)>>
               ELSE << >>)
            \o (IF idLong
               THEN <<Message("Sticker ID exceeds character limit", "", <<ID_MAX_LENGTH>>)>>
               ELSE << >>)
            \o (IF idChars
               THEN <<Message("Sticker ID contains invalid characters", "", << >>)>>
               ELSE << >>)
            \o (IF catsBad
               THEN <<Message("Too many categories", "",
                              <<Len(categories), MAX_CATEGORIES_PER_STICKER>>)>>
               ELSE << >>)
        warns == MetadataWarnings(categories)
    IN  [r EXCEPT !.metadata.pack.value = pack,
                  !.metadata.pack.isValid = IF packBad THEN FALSE ELSE @,
                  !.metadata.author.value = author,
                  !.metadata.author.isValid = IF authorBad THEN FALSE ELSE @,
                  !.metadata.id.value = id,
                  !.metadata.id.isValid = IF idLong \/ idChars THEN FALSE ELSE @,
                  !.metadata.categories.value = categories,
                  !.metadata.categories.count = Len(categories),
                  !.metadata.categories.isValid = IF catsBad THEN FALSE ELSE @,
                  !.errors = @ \o errs,
                  !.warnings = @ \o warns]

\* validateMetadata
ValidateMetadata(m, r) ==
    LET pack == OrEmpty(m.pack)
        author == OrEmpty(m.author)
        id == OrEmpty(m.id)
        categories == OrEmpty(m.categories)
        packBad == ExceedsLength(Len(pack), PACK_NAME_MAX_LENGTH)
        authorBad == ExceedsLength(Len(author), AUTHOR_MAX_LENGTH)
        idLong == ExceedsLength(Len(id), ID_MAX_LENGTH)
        idChars == Len(id) > 0 /\ ~IdFormatOk(id)
        catsBad == TooManyCategories(Len(categories))
        errs ==
            (IF packBad
               THEN <<Message("Pack name exceeds character limit", "", <<PACK_NAME_MAX_LENGTH>>)>>
               ELSE << >>)
            \o (IF authorBad
               THEN <<Message("Author name exceeds character limit", "", <<AUTHOR_MAX_LENGTH>>)>>
               ELSE << >>)
            \o (IF idLong
               THEN <<Message("Sticker ID exceeds character limit", "", <<ID_MAX_LENGTH>>)>>
               ELSE << >>)
            \o (IF idChars
               THEN <<Message("Sticker ID contains invalid characters", "", << >>)>>
               ELSE << >>)
            \o (IF catsBad
               THEN <<Message("Too many categories", "",
                              <<Len(categories), MAX_CATEGORIES_PER_STICKER>>)>>
               ELSE << >>)
        warns == MetadataWarnings(categories)
    IN  [r EXCEPT !.metadata.pack.value = pack,
                  !.metadata.pack.isValid = IF packBad THEN FALSE ELSE @,
                  !.metadata.author.value = author,
                  !.metadata.author.isValid = IF authorBad THEN FALSE ELSE @,
                  !.metadata.id.value = id,
                  !.metadata.id.isValid = IF idLong \/ idChars THEN FALSE ELSE @,
                  !.metadata.categories.value = categories,
                  !.metadata.categories.count = Len(categories),
                  !.metadata.categories.isValid = IF catsBad THEN FALSE ELSE @,
                  !.errors = @ \o errs,
                  !.warnings = @ \o warns]

\* the frame-count test written with `>=`
HighFrameCountInclusive(pages) == pages >= 150
\* `metadata.pages > 150`
HighFrameCount(pages) == pages > 150

\* validateAnimatedSticker: sharp's fault becomes a warning
ValidateAnimatedSticker(b, r) ==
    IF ~b.decodable
      THEN [r EXCEPT !.warnings = Append(@,
              Message("Could not fully validate animated sticker properties", "decode", << >>))]
      ELSE IF b.pages # 0 /\ b.pages > 1
             THEN [r EXCEPT !.warnings =
                     @ \o <<Message("Animated sticker detected", "", << >>)>>
                       \o (IF HighFrameCount(b.pages)
                             THEN <<Message("High frame count", "", <<b.pages>>)>>
                             ELSE << >>)]
             ELSE r

\* overall validity taken from the warnings instead of the errors
SetOverallValidityFromWarnings(r) == [r EXCEPT !.isValid = Len(r.warnings) = 0]
\* `result.isValid = result.errors.length === 0`
SetOverallValidity(r) == [r EXCEPT !.isValid = Len(r.errors) = 0]

\* a catch block that rethrows
HandleFaultRethrows(r, cause) ==
    [outcome |-> "thrown", result |-> r]
\* the catch block of validateSticker: what the call ends with
HandleFault(r, cause) ==
    [outcome |-> "report",
     result |-> [r EXCEPT !.isValid = FALSE,
                          !.errors = Append(@, Message("Validation failed", cause, << >>))]]

ValidateInit ==
    /\ \/ buffer \in AllBuffers /\ metadata \in FewMetadata
       \/ buffer \in FewBuffers /\ metadata \in AllMetadata
    /\ vpc = "start"
    /\ isAnimated = FALSE
    /\ validation = InitialResult
    /\ voutcome = "pending"
    /\ previous = << >>
    /\ method = "none"
    /\ sticker = NoSticker
    /\ spc = "idle"
    /\ built = NotBuilt
    /\ soutcome = "pending"
    /\ serror = "none"
    /\ reportText = << >>
    \* no conversion is running
    /\ variant = "optimized"
    /\ data = [length |-> 0, webp |-> FALSE, dims512 |-> FALSE]
    /\ targetSize = ANIMATED_MAX_SIZE
    /\ qualityLevels = << >>
    /\ i = 1
    /\ pc = "idle"
    /\ result = NullBuffer
    /\ outcome = "pending"
    /\ error = "none"
    /\ invocations = << >>
    /\ attempts = << >>
    /\ inflight = 0
    /\ files = {}

\* `const isAnimated = await this.isAnimatedSticker(buffer)` and the type write
ClassifyStep ==
    /\ vpc = "start"
    /\ isAnimated' = IsAnimatedSticker(buffer)
    /\ validation' = [validation EXCEPT !.fileSize.type =
                        IF IsAnimatedSticker(buffer) THEN "animated" ELSE "static"]
    /\ vpc' = "fileSize"
    /\ UNCHANGED <<buffer, metadata, voutcome, previous>>
    /\ UNCHANGED tvars
    /\ UNCHANGED svars

\* `this.validateFileSize(buffer, isAnimated, result)`; a fault goes to the
\* catch block of validateSticker
FileSizeStep ==
    /\ vpc = "fileSize"
    /\ IF FileSizeThrows(buffer)
         THEN /\ validation' = HandleFault(validation, "TypeError").result
              /\ voutcome' = HandleFault(validation, "TypeError").outcome
              /\ vpc' = "done"
         ELSE /\ validation' = ValidateFileSize(buffer, isAnimated, validation)
              /\ vpc' = "dimensions"
              /\ UNCHANGED voutcome
    /\ UNCHANGED <<buffer, metadata, isAnimated, previous>>
    /\ UNCHANGED tvars
    /\ UNCHANGED svars

\* `await this.validateDimensions(buffer, result)`
DimensionsStep ==
    /\ vpc = "dimensions"
    /\ validation' = ValidateDimensions(buffer, validation)
    /\ vpc' = "metadata"
    /\ UNCHANGED <<buffer, metadata, isAnimated, voutcome, previous>>
    /\ UNCHANGED tvars
    /\ UNCHANGED svars

\* `this.validateMetadata(metadata, result)`
MetadataStep ==
    /\ vpc = "metadata"
    /\ validation' = ValidateMetadata(metadata, validation)
    /\ vpc' = IF isAnimated THEN "animated" ELSE "finish"
    /\ UNCHANGED <<buffer, metadata, isAnimated, voutcome, previous>>
    /\ UNCHANGED tvars
    /\ UNCHANGED svars

\* `if (isAnimated) await this.validateAnimatedSticker(buffer, result)`
AnimatedStep ==
    /\ vpc = "animated"
    /\ validation' = ValidateAnimatedSticker(buffer, validation)
    /\ vpc' = "finish"
    /\ UNCHANGED <<buffer, metadata, isAnimated, voutcome, previous>>
    /\ UNCHANGED tvars
    /\ UNCHANGED svars

\* overall validity is set and the report returned
FinishStep ==
    /\ vpc = "finish"
    /\ validation' = SetOverallValidity(validation)
    /\ voutcome' = "report"
    /\ vpc' = "done"
    /\ UNCHANGED <<buffer, metadata, isAnimated, previous>>
    /\ UNCHANGED tvars
    /\ UNCHANGED svars

\* a result object kept across calls
NewResultShared(last) == last
\* `const result: IWhatsAppValidationResult = {...}`: built on every entry
NewResult(last) == InitialResult

\* the caller keeps the report and calls validateSticker once more with the
\* same buffer and the same metadata
CallAgain ==
    /\ vpc = "done"
    /\ Len(previous) = 0
    /\ previous' = Append(previous, [report |-> validation, outcome |-> voutcome,
                                     buffer |-> buffer, metadata |-> metadata])
    /\ validation' = NewResult(validation)
    /\ isAnimated' = FALSE
    /\ voutcome' = "pending"
    /\ vpc' = "start"
    /\ UNCHANGED <<buffer, metadata>>
    /\ UNCHANGED tvars
    /\ UNCHANGED svars

ValidateNext ==
    \/ ClassifyStep
    \/ FileSizeStep
    \/ DimensionsStep
    \/ MetadataStep
    \/ AnimatedStep
    \/ FinishStep
    \/ CallAgain

SpecValidate == ValidateInit /\ [][ValidateNext]_vars

----------------------------------------------------------------------------
(* Properties of the compliance validator. *)

DecodeFaults(msgs) == {j \in 1..Len(msgs) : msgs[j].detail = "decode"}

\* C8: in every report validateSticker returns, through the normal path or
\* through its catch block, isValid is true exactly when errors is empty,
\* whatever the number of warnings.
C8_IsValidIffNoErrors ==
    voutcome = "report"
    => (validation.isValid <=> Len(validation.errors) = 0)

\* a valid report that holds three warnings
C8_Witness ==
    /\ voutcome = "report"
    /\ validation.isValid
    /\ Len(validation.errors) = 0
    /\ Len(validation.warnings) >= 3

\* C9: validateSticker never throws and ends with a report for every buffer;
\* a fault of a sub-check (the length of a non-Buffer, a decoding failure)
\* is found in the report's errors or warnings.
C9_AlwaysReturnsReport ==
    /\ voutcome # "thrown"
    /\ vpc = "done" => voutcome = "report"
    /\ vpc \notin {"idle", "done"} => ENABLED ValidateNext
    /\ (voutcome = "report" /\ ~buffer.typed)
       => \E j \in 1..Len(validation.errors) :
             /\ validation.errors[j].text = "Validation failed"
             /\ validation.errors[j].detail = "TypeError"
    /\ (voutcome = "report" /\ buffer.typed /\ ~buffer.decodable)
       => /\ DecodeFaults(validation.errors) # {}
          /\ isAnimated => DecodeFaults(validation.warnings) # {}

\* an undecodable buffer that sniffs as a GIF: decoding fails in
\* validateDimensions and again in validateAnimatedSticker
C9_Witness ==
    /\ voutcome = "report"
    /\ buffer.typed
    /\ ~buffer.decodable
    /\ isAnimated
    /\ DecodeFaults(validation.errors) # {}
    /\ DecodeFaults(validation.warnings) # {}

\* C10 as stated: for an unreadable buffer the report holds exactly one
\* error, which embeds the cause, and the size and dimension sub-fields are
\* at their defaults (zero, isValid true).
C10_SingleErrorSafeDefaults ==
    (voutcome = "report" /\ (~buffer.typed \/ ~buffer.decodable))
    => /\ Len(validation.errors) = 1
       /\ validation.errors[1].detail \in {"decode", "TypeError"}
       /\ validation.fileSize.size = 0
       /\ validation.fileSize.isValid
       /\ validation.dimensions = [width |-> 0, height |-> 0, isValid |-> TRUE]

\* C10 amended: a value that is not a Buffer yields exactly one error
\* ("Validation failed" with the cause) and every sub-field as constructed;
\* a Buffer that cannot be decoded yields exactly one error embedding the
\* decode cause ("Failed to read sticker dimensions"), next to any size or
\* metadata errors, width and height 0, dimensions.isValid false, and a
\* fileSize measured from the buffer's length.
C10_UnreadableBufferReport ==
    voutcome = "report"
    => /\ ~buffer.typed
          => /\ validation.errors = <<Message("Validation failed", "TypeError", << >>)>>
             /\ ~validation.isValid
             /\ validation.fileSize = InitialResult.fileSize
             /\ validation.dimensions = InitialResult.dimensions
             /\ validation.metadata = InitialResult.metadata
       /\ (buffer.typed /\ ~buffer.decodable)
          => /\ Cardinality(DecodeFaults(validation.errors)) = 1
             /\ \A j \in DecodeFaults(validation.errors) :
                   validation.errors[j].text = "Failed to read sticker dimensions"
             /\ ~validation.isValid
             /\ validation.dimensions = [width |-> 0, height |-> 0, isValid |-> FALSE]
             /\ validation.fileSize.size = buffer.length
             /\ validation.fileSize.limit =
                   (IF isAnimated THEN ANIMATED_MAX_SIZE ELSE STATIC_MAX_SIZE)
             /\ validation.fileSize.isValid =
                   (buffer.length <= validation.fileSize.limit)

\* an undecodable, oversized buffer: the decode error comes second
C10_Witness ==
    /\ voutcome = "report"
    /\ buffer.typed
    /\ ~buffer.decodable
    /\ Len(validation.errors) >= 2
    /\ validation.fileSize.size > validation.fileSize.limit
    /\ ~validation.dimensions.isValid

ErrorsWith(text) == {j \in 1..Len(validation.errors) : validation.errors[j].text = text}
WarningsWith(text) == {j \in 1..Len(validation.warnings) : validation.warnings[j].text = text}

\* the sub-checks ran: the report was returned by the normal path
NormalReport == voutcome = "report" /\ buffer.typed

\* C11: a buffer classified static has the limit 100*1024, one classified
\* animated 500*1024; fileSize.isValid holds exactly when the length is
\* <= the limit (102400 valid, 102401 invalid for static), and the size
\* error is in errors exactly when fileSize.isValid is false.
C11_FileSizeBoundary ==
    NormalReport
    => /\ validation.fileSize.type = "static"
          => validation.fileSize.limit = 100 * 1024
       /\ validation.fileSize.type = "animated"
          => validation.fileSize.limit = 500 * 1024
       /\ validation.fileSize.size = buffer.length
       /\ validation.fileSize.isValid <=> buffer.length <= validation.fileSize.limit
       /\ (validation.fileSize.type = "static" /\ buffer.length = 102400)
          => validation.fileSize.isValid
       /\ (validation.fileSize.type = "static" /\ buffer.length = 102401)
          => ~validation.fileSize.isValid
       /\ Cardinality(ErrorsWith("File size exceeds WhatsApp limit"))
             = (IF validation.fileSize.isValid THEN 0 ELSE 1)

\* a static buffer of exactly 102400 bytes, reported valid in size
C11_Witness ==
    /\ NormalReport
    /\ validation.fileSize.type = "static"
    /\ buffer.length = 102400
    /\ validation.fileSize.isValid
    /\ ErrorsWith("File size exceeds WhatsApp limit") = {}

\* C12: dimensions.isValid holds exactly when the decoded width and height
\* are both 512 (511x512 and 512x511 are invalid); the dimension error is in
\* errors exactly when dimensions.isValid is false; width and height of the
\* report are the decoded values.
C12_DimensionCheck ==
    NormalReport
    => /\ buffer.decodable
          => /\ validation.dimensions.width = buffer.width
             /\ validation.dimensions.height = buffer.height
             /\ validation.dimensions.isValid
                   <=> (buffer.width = 512 /\ buffer.height = 512)
             /\ (buffer.width = 511 /\ buffer.height = 512)
                   => ~validation.dimensions.isValid
             /\ (buffer.width = 512 /\ buffer.height = 511)
                   => ~validation.dimensions.isValid
             /\ Cardinality(ErrorsWith("Sticker dimensions must be exactly 512x512 pixels"))
                   = (IF validation.dimensions.isValid THEN 0 ELSE 1)
       /\ ~validation.dimensions.isValid
          <=> (ErrorsWith("Sticker dimensions must be exactly 512x512 pixels")
                 \cup ErrorsWith("Failed to read sticker dimensions")) # {}

\* a decoded 511x512 buffer, reported with its sizes and the dimension error
C12_Witness ==
    /\ NormalReport
    /\ buffer.decodable
    /\ validation.dimensions = [width |-> 511, height |-> 512, isValid |-> FALSE]
    /\ ErrorsWith("Sticker dimensions must be exactly 512x512 pixels") # {}

LengthErrorOf(field) ==
    CASE field = "pack" -> ErrorsWith("Pack name exceeds character limit")
      [] field = "author" -> ErrorsWith("Author name exceeds character limit")
      [] field = "id" -> ErrorsWith("Sticker ID exceeds character limit")

\* C13: for pack, author and id, the field is flagged invalid with its
\* length error exactly when it is longer than 128 characters (128 valid,
\* 129 invalid); an absent field is the empty string and gets no length error.
C13_MetadataLengthLimits ==
    NormalReport
    => \A field \in {"pack", "author", "id"} :
          LET given == metadata[field]
              sub == validation.metadata[field]
          IN  /\ sub.value = (IF given.present THEN given.value ELSE << >>)
              /\ sub.limit = 128
              /\ (~sub.isValid /\ LengthErrorOf(field) # {}) <=> Len(sub.value) > 128
              /\ LengthErrorOf(field) # {} <=> Len(sub.value) > 128
              /\ Cardinality(LengthErrorOf(field)) <= 1
              /\ Len(sub.value) = 128 => LengthErrorOf(field) = {}
              /\ Len(sub.value) = 129 => ~sub.isValid
              /\ field # "id" => (sub.isValid <=> Len(sub.value) <= 128)
              /\ ~given.present => (sub.value = << >> /\ sub.isValid)

\* a pack name of exactly 128 characters next to an author of 129
C13_Witness ==
    /\ NormalReport
    /\ Len(validation.metadata.pack.value) = 128
    /\ validation.metadata.pack.isValid
    /\ Len(validation.metadata.author.value) = 129
    /\ ~validation.metadata.author.isValid
    /\ LengthErrorOf("author") # {}
    /\ LengthErrorOf("pack") = {}

IllFormed(id) ==
    \E j \in 1..Len(id) :
       id[j] \notin Lower \cup Upper \cup Digits \cup {"_", "-", ".", " "}

\* C14: the 'invalid characters' error is reported, and id.isValid is false,
\* exactly when a non-empty id holds a character outside a-z, A-Z, 0-9, '_',
\* '-', '.', ' ', whatever its length; an id that is too long and ill-formed
\* gets both errors; 'a_b-c.d e' and an empty or absent id get none.
C14_IdCharset ==
    NormalReport
    => LET id == IF metadata.id.present THEN metadata.id.value ELSE << >>
           charset == ErrorsWith("Sticker ID contains invalid characters")
       IN  /\ charset # {} <=> IllFormed(id)
           /\ Cardinality(charset) <= 1
           /\ IllFormed(id) => ~validation.metadata.id.isValid
           /\ validation.metadata.id.isValid <=> (~IllFormed(id) /\ Len(id) <= 128)
           /\ (IllFormed(id) /\ Len(id) > 128)
                 => (charset # {} /\ LengthErrorOf("id") # {})
           /\ id = <<"a", "_", "b", "-", "c", ".", "d", " ", "e">>
                 => (charset = {} /\ validation.metadata.id.isValid)
           /\ Len(id) = 0 => charset = {}

\* an id of 129 characters that holds '@': both errors
C14_Witness ==
    /\ NormalReport
    /\ metadata.id.present
    /\ Len(metadata.id.value) = 129
    /\ IllFormed(metadata.id.value)
    /\ ErrorsWith("Sticker ID contains invalid characters") # {}
    /\ LengthErrorOf("id") # {}
    /\ ~validation.metadata.id.isValid

\* C15: more than 3 categories give an error and categories.isValid false;
\* none (or absent) give the 'No emoji categories' warning, no error, and
\* leave categories.isValid true; 1 to 3 give neither; count is the number
\* of categories supplied.
C15_Categories ==
    NormalReport
    => LET n == IF metadata.categories.present
                  THEN Len(metadata.categories.value) ELSE 0
           tooMany == ErrorsWith("Too many categories")
           none == WarningsWith("No emoji categories provided")
       IN  /\ validation.metadata.categories.count = n
           /\ tooMany # {} <=> n > 3
           /\ validation.metadata.categories.isValid <=> n <= 3
           /\ none # {} <=> n = 0
           /\ Cardinality(tooMany) <= 1
           /\ Cardinality(none) <= 1
           /\ n \in 1..3 => (tooMany = {} /\ none = {})

\* exactly three categories: neither the error nor the warning
C15_Witness ==
    /\ NormalReport
    /\ metadata.categories.present
    /\ Len(metadata.categories.value) = 3
    /\ validation.metadata.categories = [value |-> metadata.categories.value,
                                         isValid |-> TRUE, count |-> 3, limit |-> 3]
    /\ ErrorsWith("Too many categories") = {}
    /\ WarningsWith("No emoji categories provided") = {}

SpecScenarioMetadata ==
    [pack |-> [present |-> TRUE, value |-> [j \in 1..140 |-> "A"]],
     author |-> [present |-> TRUE, value |-> <<"o", "k">>],
     id |-> [present |-> FALSE, value |-> << >>],
     categories |-> [present |-> TRUE, value |-> << >>]]

\* C16: each of metadata.pack/author/id/categories .isValid is decided by
\* its own field alone; for {pack: 140 x 'A', author: 'ok', categories: []}
\* the report is invalid, holds the pack-name error and the missing
\* categories warning, and author.isValid is true.
C16_MetadataIndependence ==
    NormalReport
    => /\ validation.metadata.pack.isValid
             <=> Len(metadata.pack.value) <= 128
       /\ validation.metadata.author.isValid
             <=> Len(metadata.author.value) <= 128
       /\ validation.metadata.id.isValid
             <=> (Len(metadata.id.value) <= 128 /\ ~IllFormed(metadata.id.value))
       /\ validation.metadata.categories.isValid
             <=> Len(metadata.categories.value) <= 3
       /\ metadata = SpecScenarioMetadata
             => /\ ~validation.isValid
                /\ ErrorsWith("Pack name exceeds character limit") # {}
                /\ WarningsWith("No emoji categories provided") # {}
                /\ validation.metadata.author.isValid
                /\ validation.metadata.id.isValid
                /\ validation.metadata.categories.isValid
                /\ ~validation.metadata.pack.isValid

\* the scenario of the specification
C16_Witness ==
    /\ NormalReport
    /\ metadata = SpecScenarioMetadata
    /\ ~validation.isValid
    /\ validation.metadata.author.isValid
    /\ ~validation.metadata.pack.isValid

\* C17: a decoded buffer is classified animated, with the 500 KiB limit,
\* exactly when its decoded frame count is > 1, whatever sniffing says of
\* its container; a single-frame image is static.
C17_ClassifiedByFrameCount ==
    (NormalReport /\ buffer.decodable)
    => /\ validation.fileSize.type = "animated" <=> buffer.pages > 1
       /\ validation.fileSize.limit =
             (IF buffer.pages > 1 THEN 500 * 1024 ELSE 100 * 1024)

\* C18 as stated: the stroke advisory is in the warnings of every report,
\* whichever path produced it, so warnings is never empty.
C18_AdvisoryInEveryReport ==
    voutcome = "report"
    => /\ WarningsWith("Consider adding an 8px white stroke") # {}
       /\ Len(validation.warnings) > 0

\* C18 amended: the stroke advisory is, once and last among the warnings of
\* validateMetadata, in every report for which validateMetadata ran; a report
\* built by the catch block for a value that is not a Buffer has no warnings.
C18_AdvisoryWhenMetadataRan ==
    voutcome = "report"
    => /\ buffer.typed
          => /\ Cardinality(WarningsWith("Consider adding an 8px white stroke")) = 1
             /\ Len(validation.warnings) > 0
       /\ ~buffer.typed => validation.warnings = << >>

\* a valid report with categories and a small buffer: the advisory is the
\* only warning
C18_Witness ==
    /\ NormalReport
    /\ validation.isValid
    /\ Len(validation.warnings) = 1
    /\ validation.warnings[1].text = "Consider adding an 8px white stroke"
    /\ metadata.categories.present
    /\ Len(metadata.categories.value) > 0

\* C19: a second call of validateSticker with the same buffer and metadata
\* ends with the same report as the first (isValid, errors and warnings in
\* order, sub-fields), and no step of either call changes the buffer or the
\* metadata.
C19_IdempotentValidation ==
    /\ [](/\ (Len(previous) = 1 /\ vpc = "done")
             => /\ validation = previous[1].report
                /\ voutcome = previous[1].outcome
          /\ \A j \in 1..Len(previous) :
                previous[j].buffer = buffer /\ previous[j].metadata = metadata)
    /\ [][buffer' = buffer /\ metadata' = metadata]_vars

\* a second call that ended, on a report holding errors and warnings
C19_Witness ==
    /\ Len(previous) = 1
    /\ vpc = "done"
    /\ voutcome = "report"
    /\ Len(validation.errors) >= 2
    /\ Len(validation.warnings) >= 2
    /\ validation = previous[1].report

\* C20: when a video-conversion call has returned or raised, every temporary
\* file it created (the input video file, each attempt's output file, the
\* files of the fallback conversion) has been deleted.
C20_TempFilesCleanedUp == pc = "done" => files = {}

----------------------------------------------------------------------------
(* The compliance methods of the Sticker class. *)

InstanceMethods == {"validateWhatsAppCompliance", "getWhatsAppComplianceReport"}
StaticMethods == {"Sticker.getWhatsAppComplianceReport"}
ReportMethods == {"getWhatsAppComplianceReport", "Sticker.getWhatsAppComplianceReport"}

\* what the constructor's `data` can be, as far as _parse can tell: a Buffer,
\* a string starting with '<svg', the path of an existing file, any other
\* string (fetched as a URL)
DataKinds == {"buffer", "svg", "file", "url"}

\* the ids Utils.generateStickerID() hands out: hexadecimal strings
GeneratedIds == {Str("0", 64), Str("f", 64)}

\* the constructor: `this.metadata.x = this.metadata.x ?? default`
Constructor(kind, options, newId) ==
    [data |-> kind,
     metadata |-> [pack |-> Given(OrEmpty(options.pack)),
                   author |-> Given(OrEmpty(options.author)),
                   id |-> IF options.id.present THEN options.id ELSE Given(newId),
                   categories |-> options.categories]]

\* the faults build() can end with: _parse (readFile, axios.get),
\* _getMimeType ('Invalid file type' when nothing is sniffed and data is not
\* a string), convert / Exif
BuildFaults(kind) ==
    (IF kind = "file" THEN {"ENOENT"} ELSE {})
    \cup (IF kind = "url" THEN {"Request failed"} ELSE {})
    \cup (IF kind = "buffer" THEN {"Invalid file type"} ELSE {})
    \cup {"conversion failed"}

\* what build() can resolve to: always a Buffer
BuiltBuffers == {b \in FewBuffers : b.typed}

\* the packs setPack is called with while the call runs
SetPackValues == {<<"p">>, Str("A", PACK_NAME_MAX_LENGTH + 1)}

\* a build failure answered like a fault inside the validator
BuildFailureSwallowed(cause) == [soutcome |-> "report", serror |-> "none"]
\* `const buffer = await this.build()` stands outside every try block: the
\* rejection of build() is the rejection of the call
BuildFailure(cause) == [soutcome |-> "rejected", serror |-> cause]

ComplianceInit ==
    /\ \/ /\ method \in InstanceMethods
          /\ \E kind \in DataKinds, options \in FewMetadata, newId \in GeneratedIds :
                sticker = Constructor(kind, options, newId)
          /\ spc = "build"
          /\ buffer = NotABuffer
          /\ metadata = [pack |-> Absent, author |-> Absent, id |-> Absent,
                         categories |-> Absent]
          /\ vpc = "idle"
       \/ /\ method \in StaticMethods
          /\ sticker = NoSticker
          /\ spc = "validate"
          /\ buffer \in FewBuffers
          /\ metadata \in FewMetadata
          /\ vpc = "start"
    /\ built = NotBuilt
    /\ soutcome = "pending"
    /\ serror = "none"
    /\ reportText = << >>
    /\ isAnimated = FALSE
    /\ validation = InitialResult
    /\ voutcome = "pending"
    /\ previous = << >>
    \* no conversion is running
    /\ variant = "optimized"
    /\ data = [length |-> 0, webp |-> FALSE, dims512 |-> FALSE]
    /\ targetSize = ANIMATED_MAX_SIZE
    /\ qualityLevels = << >>
    /\ i = 1
    /\ pc = "idle"
    /\ result = NullBuffer
    /\ outcome = "pending"
    /\ error = "none"
    /\ invocations = << >>
    /\ attempts = << >>
    /\ inflight = 0
    /\ files = {}

\* setPack, called by other code while the call awaits: `this.metadata` is the
\* object validateSticker was handed
SetPack(p) ==
    /\ method \in InstanceMethods
    /\ spc \in {"build", "validate"}
    /\ sticker.metadata.pack # Given(p)
    /\ sticker' = [sticker EXCEPT !.metadata.pack = Given(p)]
    /\ metadata' = IF spc = "validate" THEN [metadata EXCEPT !.pack = Given(p)]
                                        ELSE metadata
    /\ UNCHANGED <<method, spc, built, soutcome, serror, reportText>>
    /\ UNCHANGED <<buffer, vpc, isAnimated, validation, voutcome, previous>>
    /\ UNCHANGED tvars

\* `const buffer = await this.build()` resolves; validateSticker is entered
\* with the buffer and `this.metadata`
BuildSucceeds(b) ==
    /\ spc = "build"
    /\ built' = [state |-> "ok", buffer |-> b, error |-> "none"]
    /\ buffer' = b
    /\ metadata' = sticker.metadata
    /\ vpc' = "start"
    /\ spc' = "validate"
    /\ UNCHANGED <<method, sticker, soutcome, serror, reportText>>
    /\ UNCHANGED <<isAnimated, validation, voutcome, previous>>
    /\ UNCHANGED tvars

\* `await this.build()` rejects
BuildFails(cause) ==
    /\ spc = "build"
    /\ cause \in BuildFaults(sticker.data)
    /\ built' = [state |-> "failed", buffer |-> built.buffer, error |-> cause]
    /\ soutcome' = BuildFailure(cause).soutcome
    /\ serror' = BuildFailure(cause).serror
    /\ spc' = "done"
    /\ UNCHANGED <<method, sticker, reportText>>
    /\ UNCHANGED vvars
    /\ UNCHANGED tvars

\* validateWhatsAppCompliance returns what validateSticker settled with
ReturnValidation ==
    /\ spc = "validate"
    /\ vpc = "done"
    /\ method \notin ReportMethods
    /\ soutcome' = IF voutcome = "report" THEN "report" ELSE "rejected"
    /\ serror' = IF voutcome = "report" THEN "none" ELSE "Validation failed"
    /\ spc' = "done"
    /\ UNCHANGED <<method, sticker, built, reportText>>
    /\ UNCHANGED vvars
    /\ UNCHANGED tvars

\* one element of `lines`: what kind of line it is, its fixed wording, the
\* string, numbers, mark and message it prints, and whether it ends in '\n'
NoMessage == Message("", "", << >>)
Line(tag, label, value, nums, ok, msg, gap) ==
    [tag |-> tag, label |-> label, value |-> value, nums |-> nums, ok |-> ok,
     msg |-> msg, gap |-> gap]

Header(label) == Line("header", label, << >>, << >>, TRUE, NoMessage, FALSE)

\* `forEach(e => lines.push(`   * ${e}`))`
Bullets(msgs) ==
    [j \in 1..Len(msgs) |-> Line("bullet", "", << >>, << >>, TRUE, msgs[j], FALSE)]

StatusLine(r) ==
    Line("status", IF r.isValid THEN "COMPLIANT" ELSE "NON-COMPLIANT",
         << >>, << >>, r.isValid, NoMessage, TRUE)

FileSizeSection(r) ==
    <<Header("File Size"),
      Line("field", "Size", << >>, <<ToFixed1KB(r.fileSize.size)>>, TRUE, NoMessage, FALSE),
      Line("field", "Limit", <<r.fileSize.type>>, <<ToFixed1KB(r.fileSize.limit)>>, TRUE,
           NoMessage, FALSE),
      Line("field", "Status", << >>, << >>, r.fileSize.isValid, NoMessage, TRUE)>>

DimensionsSection(r) ==
    <<Header("Dimensions"),
      Line("field", "Size", << >>, <<r.dimensions.width, r.dimensions.height>>, TRUE,
           NoMessage, FALSE),
      Line("field", "Required", << >>, <<512, 512>>, TRUE, NoMessage, FALSE),
      Line("field", "Status", << >>, << >>, r.dimensions.isValid, NoMessage, TRUE)>>

MetadataLine(label, f, gap) ==
    Line("field", label, f.value, <<Len(f.value), f.limit>>, f.isValid, NoMessage, gap)

MetadataSection(r) ==
    <<Header("Metadata"),
      MetadataLine("Pack", r.metadata.pack, FALSE),
      MetadataLine("Author", r.metadata.author, FALSE),
      MetadataLine("ID", r.metadata.id, FALSE),
      Line("field", "Categories", << >>,
           <<r.metadata.categories.count, r.metadata.categories.limit>>,
           r.metadata.categories.isValid, NoMessage, TRUE)>>

Blank == Line("blank", "", << >>, << >>, TRUE, NoMessage, FALSE)

\* a section printed whatever the list holds
ListSectionAlways(label, msgs) == <<Header(label)>> \o Bullets(msgs) \o <<Blank>>
\* `if (list.length > 0) { header; one bullet per entry; '' }`
ListSection(label, msgs) ==
    IF Len(msgs) > 0 THEN <<Header(label)>> \o Bullets(msgs) \o <<Blank>> ELSE << >>

\* generateComplianceReport: `lines`, before the join
GenerateComplianceReport(r) ==
    <<Line("title", "WhatsApp Sticker Compliance Report", << >>, << >>, TRUE, NoMessage, TRUE),
      StatusLine(r)>>
    \o FileSizeSection(r)
    \o DimensionsSection(r)
    \o MetadataSection(r)
    \o ListSection("Errors", r.errors)
    \o ListSection("Warnings", r.warnings)
    \o <<Line("link", "Learn more", << >>, << >>, TRUE, NoMessage, FALSE)>>

\* getWhatsAppComplianceReport: the report of validateSticker is serialized
GenerateReport ==
    /\ spc = "validate"
    /\ vpc = "done"
    /\ method \in ReportMethods
    /\ IF voutcome = "report"
         THEN /\ reportText' = GenerateComplianceReport(validation)
              /\ soutcome' = "text"
              /\ UNCHANGED serror
         ELSE /\ soutcome' = "rejected"
              /\ serror' = "Validation failed"
              /\ UNCHANGED reportText
    /\ spc' = "done"
    /\ UNCHANGED <<method, sticker, built>>
    /\ UNCHANGED vvars
    /\ UNCHANGED tvars

ComplianceNext ==
    \/ \E p \in SetPackValues : SetPack(p)
    \/ \E b \in BuiltBuffers : BuildSucceeds(b)
    \/ \E cause \in {"ENOENT", "Request failed", "Invalid file type", "conversion failed"} :
          BuildFails(cause)
    \/ ClassifyStep
    \/ FileSizeStep
    \/ DimensionsStep
    \/ MetadataStep
    \/ AnimatedStep
    \/ FinishStep
    \/ ReturnValidation
    \/ GenerateReport

SpecCompliance == ComplianceInit /\ [][ComplianceNext]_vars

----------------------------------------------------------------------------
(* Properties of the compliance methods. *)

\* C21: the instance method validates the buffer build() resolved to, with
\* the instance's metadata; when build() rejects, the call rejects with that
\* error, validateSticker is never entered and no report is returned.
C21_BuildFailureRejects ==
    method \in InstanceMethods =>
        /\ built.state = "failed"
             => /\ spc = "done"
                /\ soutcome = "rejected"
                /\ serror = built.error
                /\ serror \in BuildFaults(sticker.data)
                /\ vpc = "idle"
                /\ voutcome = "pending"
                /\ validation = InitialResult
                /\ reportText = << >>
        /\ vpc # "idle"
             => /\ built.state = "ok"
                /\ buffer = built.buffer
                /\ metadata = sticker.metadata
        /\ soutcome \in {"report", "text"} => built.state = "ok" /\ voutcome = "report"

\* validateWhatsAppCompliance on a string that is no file: the fetch fails
C21_Witness ==
    /\ method = "validateWhatsAppCompliance"
    /\ sticker.data = "url"
    /\ built.state = "failed"
    /\ spc = "done"
    /\ soutcome = "rejected"
    /\ serror = "Request failed"

\* the positions of the section headers of the text, and of the lines of a tag
LinesTagged(tag) == {j \in 1..Len(reportText) : reportText[j].tag = tag}
HeaderAt(label) ==
    {j \in LinesTagged("header") : reportText[j].label = label}
\* the header a line stands under
PrecedingHeader(j) ==
    LET before == {k \in LinesTagged("header") : k < j}
    IN  IF before = {} THEN "none"
        ELSE reportText[CHOOSE k \in before : \A l \in before : l <= k].label
BulletsUnder(label) ==
    {j \in LinesTagged("bullet") : PrecedingHeader(j) = label}

\* the section `label` is there iff msgs is not empty, and lists msgs once
\* each, in order, right under its header
ListsExactly(label, msgs) ==
    /\ Cardinality(HeaderAt(label)) = IF Len(msgs) > 0 THEN 1 ELSE 0
    /\ Cardinality(BulletsUnder(label)) = Len(msgs)
    /\ \A h \in HeaderAt(label) : \A k \in 1..Len(msgs) :
          /\ h + k \in BulletsUnder(label)
          /\ reportText[h + k].msg = msgs[k]

\* C22: the text generateComplianceReport builds says COMPLIANT iff
\* report.isValid, has its sections in the order File Size, Dimensions,
\* Metadata, Errors, Warnings, has the Errors section iff errors is not empty
\* and the Warnings section iff warnings is not empty, each listing every
\* entry once in the report's order; building the text leaves the report as
\* it was.
C22_ComplianceReportText ==
    /\ [](soutcome = "text" =>
            /\ \E j \in LinesTagged("status") :
                  /\ LinesTagged("status") = {j}
                  /\ reportText[j].label = "COMPLIANT" <=> validation.isValid
                  /\ reportText[j].label = "NON-COMPLIANT" <=> ~validation.isValid
            /\ \A a \in HeaderAt("File Size"), b \in HeaderAt("Dimensions"),
                  c \in HeaderAt("Metadata") :
                  /\ a < b /\ b < c
                  /\ \A d \in HeaderAt("Errors") : c < d
                  /\ \A w \in HeaderAt("Warnings") :
                        c < w /\ \A d \in HeaderAt("Errors") : d < w
            /\ \A label \in {"File Size", "Dimensions", "Metadata"} :
                  Cardinality(HeaderAt(label)) = 1 /\ BulletsUnder(label) = {}
            /\ {reportText[j].label : j \in LinesTagged("header")}
                  \subseteq {"File Size", "Dimensions", "Metadata", "Errors", "Warnings"}
            /\ ListsExactly("Errors", validation.errors)
            /\ ListsExactly("Warnings", validation.warnings))
    /\ [][reportText' # reportText => validation' = validation]_vars

\* the text of a report that holds several errors and several warnings
C22_Witness ==
    /\ soutcome = "text"
    /\ Len(validation.errors) >= 2
    /\ Len(validation.warnings) >= 2
    /\ Cardinality(BulletsUnder("Errors")) >= 2
    /\ Cardinality(BulletsUnder("Warnings")) >= 2

----------------------------------------------------------------------------
(* The single-pass conversions: the two videoToGif of src/internal/          *)
(* videoToGif.ts (the second attaches no 'error' handler and does not await  *)
(* its unlinks) and crop.                                                    *)

SinglePassVariants == {"single", "singleBare", "crop"}

\* an option the command does not carry
NotGiven == -1

\* '-t', '10'; 'fps=15'; '-q:v', '75'; '-compression_level', '4'
SinglePassRequest ==
    [origin |-> "single", t |-> 10, fps |-> 15, q |-> 75, compression |-> 4,
     method |-> NotGiven, mpdecimate |-> FALSE]

\* crop: 'fps=15' in the filter, no '-t', no '-q:v'
CropRequest ==
    [origin |-> "crop", t |-> NotGiven, fps |-> 15, q |-> NotGiven,
     compression |-> NotGiven, method |-> NotGiven, mpdecimate |-> FALSE]

RequestOf(v) == IF v = "crop" THEN CropRequest ELSE SinglePassRequest

\* `${filename}.webp`, or the `name` of crop
SingleWebpFile == <<"webp", 0>>

SingleBuffer(size) == [src |-> "single", idx |-> 0, size |-> size]

\* the files the call writes before the codec runs: crop is handed a file name
WrittenBy(v) == IF v = "crop" THEN {} ELSE {VideoFile}

\* does the promise around the command settle when the codec reports a failure?
RejectsOnErrorAlways(v) == TRUE
\* `.on('error', reject)`; the second videoToGif has only `.on('end', resolve)`
RejectsOnError(v) == v # "singleBare"

\* the files left when the call returns: the first videoToGif awaits both
\* unlinks, the second only starts them, crop unlinks nothing
LeftAtReturn(v, fs) ==
    IF v = "single" THEN fs \ {VideoFile, SingleWebpFile} ELSE fs

\* a call of any conversion of the repository
ConvertInit ==
    /\ variant \in Variants \cup SinglePassVariants
    /\ data \in [length : InputSizes, webp : BOOLEAN, dims512 : BOOLEAN]
    /\ (variant # "precheck" => data.webp = FALSE /\ data.dims512 = FALSE)
    /\ targetSize = ANIMATED_MAX_SIZE
    /\ qualityLevels = << >>
    /\ i = 1
    /\ pc = IF variant \in Variants THEN "start" ELSE "write"
    /\ result = NullBuffer
    /\ outcome = "pending"
    /\ error = "none"
    /\ invocations = << >>
    /\ attempts = << >>
    /\ inflight = 0
    /\ files = {}
    \* no validation is running
    /\ buffer = [typed |-> FALSE]
    /\ metadata = [pack |-> << >>]
    /\ vpc = "idle"
    /\ isAnimated = FALSE
    /\ validation = [isValid |-> TRUE]
    /\ voutcome = "pending"
    /\ previous = << >>
    /\ method = "none"
    /\ sticker = NoSticker
    /\ spc = "idle"
    /\ built = NotBuilt
    /\ soutcome = "pending"
    /\ serror = "none"
    /\ reportText = << >>

\* writeFile(video, data), then the command is built and started
SingleStart ==
    /\ pc = "write"
    /\ files' = files \cup WrittenBy(variant)
    /\ invocations' = Append(invocations, RequestOf(variant))
    /\ inflight' = inflight + 1
    /\ pc' = "converting"
    /\ UNCHANGED <<variant, data, targetSize, qualityLevels, i, result, outcome,
                   error, attempts>>
    /\ UNCHANGED vvars
    /\ UNCHANGED svars

\* 'end' fires and readFile resolves: the buffer is returned
SingleEnds(size) ==
    /\ pc = "converting"
    /\ inflight' = inflight - 1
    /\ result' = SingleBuffer(size)
    /\ files' = LeftAtReturn(variant, files \cup {SingleWebpFile})
    /\ outcome' = "returned"
    /\ pc' = "done"
    /\ UNCHANGED <<variant, data, targetSize, qualityLevels, i, error, invocations,
                   attempts>>
    /\ UNCHANGED vvars
    /\ UNCHANGED svars

\* 'error' fires: with a handler the promise rejects and the call raises;
\* without one nothing ever settles the promise the call awaits
SingleCodecFails ==
    /\ pc = "converting"
    /\ inflight' = inflight - 1
    /\ IF RejectsOnError(variant)
         THEN /\ outcome' = "raised"
              /\ error' = "codec"
              /\ pc' = "done"
         ELSE /\ pc' = "awaiting"
              /\ UNCHANGED <<outcome, error>>
    /\ UNCHANGED <<variant, data, targetSize, qualityLevels, i, result, invocations,
                   attempts, files>>
    /\ UNCHANGED vvars
    /\ UNCHANGED svars

\* 'end' fires but readFile rejects
SingleReadFails ==
    /\ pc = "converting"
    /\ inflight' = inflight - 1
    /\ outcome' = "raised"
    /\ error' = "read"
    /\ pc' = "done"
    /\ UNCHANGED <<variant, data, targetSize, qualityLevels, i, result, invocations,
                   attempts, files>>
    /\ UNCHANGED vvars
    /\ UNCHANGED svars

\* an unlink the second videoToGif started and did not await completes
LateUnlink(f) ==
    /\ pc = "done"
    /\ variant = "singleBare"
    /\ outcome = "returned"
    /\ f \in files
    /\ files' = files \ {f}
    /\ UNCHANGED <<variant, data, targetSize, qualityLevels, i, pc, result, outcome,
                   error, invocations, attempts, inflight>>
    /\ UNCHANGED vvars
    /\ UNCHANGED svars

ConvertNext ==
    \/ Begin
    \/ StartEncode
    \/ \E size \in OutputSizes : EncodeSucceeds(size)
    \/ EncodeFails
    \/ ReadFails
    \/ Cleanup
    \/ \E size \in OutputSizes : FallbackSucceeds(size)
    \/ FallbackFails
    \/ SingleStart
    \/ \E size \in OutputSizes : SingleEnds(size)
    \/ SingleCodecFails
    \/ SingleReadFails
    \/ \E f \in {VideoFile, SingleWebpFile} : LateUnlink(f)

SpecConvert == ConvertInit /\ [][ConvertNext]_vars

\* every codec invocation completes and every file operation completes: a
\* step that can be taken is taken
FairSpecConvert == SpecConvert /\ WF_vars(ConvertNext)

\* C23: every video-conversion call eventually returns a buffer or raises.
C23_ConversionTerminates == <>(pc = "done" /\ outcome \in {"returned", "raised"})

----------------------------------------------------------------------------
(* Further properties of the ladder. *)

\* C24: when the codec invocation of a ladder entry that is not the last one
\* fails (or its output cannot be read), the call does not raise there and
\* invokes the next entry; a failed attempt never supplies the result.
C24_AttemptFailureRecoverable ==
    /\ \A k \in 1..Len(attempts) :
          (~attempts[k].ok /\ k < Len(qualityLevels)) =>
              /\ outcome = "raised" => Len(attempts) > k
              /\ Len(attempts) = k =>
                    /\ i = k + 1
                    /\ \/ pc = "loop" /\ Len(invocations) = k
                       \/ /\ pc = "encoding"
                          /\ Len(invocations) = k + 1
                          /\ invocations[k + 1] =
                                LadderRequest(variant, qualityLevels[k + 1], k + 1)
    /\ pc = "loop" => ENABLED StartEncode
    /\ result.src = "ladder" =>
          /\ result.idx \in 1..Len(attempts)
          /\ attempts[result.idx].ok
          /\ attempts[result.idx].size = result.size

\* the first entry failed, the second was invoked and supplied the result
C24_Witness ==
    /\ pc = "done"
    /\ outcome = "returned"
    /\ Len(attempts) = 2
    /\ ~attempts[1].ok
    /\ Len(invocations) = 2
    /\ result = LadderBuffer(2, attempts[2].size)

\* a ladder runs from highest fidelity to most aggressive compression
FidelityDescending(levels) ==
    \A k \in 1..(Len(levels) - 1) :
        /\ levels[k].quality > levels[k + 1].quality
        /\ levels[k].fps >= levels[k + 1].fps
        /\ levels[k].duration >= levels[k + 1].duration
        /\ levels[k].compression <= levels[k + 1].compression
        /\ levels[k].method <= levels[k + 1].method

\* C25: the ladder a call walks is non-empty, with quality strictly
\* decreasing, frame rate and duration non-increasing and compression effort
\* non-decreasing along it; the ladder of the pre-check variant is so with and
\* without its leading high-quality entry.
C25_LadderOrdered ==
    pc \in {"loop", "encoding", "cleanup", "fallbackEncoding"} =>
        /\ Len(qualityLevels) > 0
        /\ FidelityDescending(qualityLevels)
        /\ variant = "precheck" =>
              Len(qualityLevels) = IF StartFromHighQuality(data) THEN 5 ELSE 4

\* the pre-check variant walking its ladder with the leading entry
C25_Witness ==
    /\ variant = "precheck"
    /\ StartFromHighQuality(data)
    /\ pc = "encoding"
    /\ i = 2
    /\ Len(qualityLevels) = 5
    /\ qualityLevels[1].quality = 70

\* C26: every call that returns a buffer has invoked the codec at least once,
\* and the returned buffer is a codec output, never the input bytes.
C26_AlwaysInvokesCodec ==
    (pc = "done" /\ outcome = "returned") =>
        /\ Len(invocations) >= 1
        /\ result.src # "input"

\* C26 as amended: the pre-check variant returns the input itself, without
\* any codec invocation, exactly when the input sniffs as image/webp, is not
\* larger than the target and is 512x512; every other returning call has
\* invoked the codec and returns one of its outputs.
C26_CodecOutputUnlessPreCheck ==
    (pc = "done" /\ outcome = "returned") =>
        IF variant = "precheck" /\ data.webp /\ data.length <= targetSize /\ data.dims512
          THEN /\ result = InputBuffer(data)
               /\ invocations = << >>
               /\ files = {}
          ELSE /\ Len(invocations) >= 1
               /\ result.src \in {"ladder", "fallback"}
               /\ result.size \in OutputSizes

\* the fast path taken: a compliant WebP comes back as it went in
C26_Witness ==
    /\ variant = "precheck"
    /\ pc = "done"
    /\ outcome = "returned"
    /\ data.webp /\ data.dims512 /\ data.length <= targetSize
    /\ result = InputBuffer(data)
    /\ invocations = << >>

----------------------------------------------------------------------------
(* Further properties of the validator. *)

\* C27: the 'much larger than the recommended' warning is in the report iff
\* the buffer is longer than 3 * 15 * 1024 = 46080 bytes, whatever the
\* classification; it is a warning, never an error, and fileSize.isValid and
\* isValid are what they are without it.
C27_AdvisorySizeWarning ==
    NormalReport =>
        /\ WarningsWith("File size is much larger than the recommended ~15KB") # {}
              <=> buffer.length > 46080
        /\ Cardinality(WarningsWith("File size is much larger than the recommended ~15KB")) <= 1
        /\ ErrorsWith("File size is much larger than the recommended ~15KB") = {}
        /\ validation.fileSize.isValid
              <=> buffer.length <= (IF isAnimated THEN ANIMATED_MAX_SIZE ELSE STATIC_MAX_SIZE)
        /\ validation.fileSize.isValid
              <=> ErrorsWith("File size exceeds WhatsApp limit") = {}
        /\ validation.isValid <=> Len(validation.errors) = 0

\* a valid report that carries the advisory: 46081 bytes
C27_Witness ==
    /\ NormalReport
    /\ buffer.length = 46081
    /\ validation.isValid
    /\ validation.fileSize.isValid
    /\ WarningsWith("File size is much larger than the recommended ~15KB") # {}

\* C28: a buffer classified animated whose decoded frame count is above one
\* gets the 'Animated sticker detected' warning, and the 'High frame count'
\* warning iff it has more than 150 frames; a buffer classified static gets
\* neither; the animated check, a fault of its decoding included, adds
\* warnings only.
C28_AnimatedHeuristic ==
    /\ [](NormalReport =>
            /\ (isAnimated /\ buffer.decodable /\ buffer.pages > 1) =>
                  /\ Cardinality(WarningsWith("Animated sticker detected")) = 1
                  /\ WarningsWith("High frame count") # {} <=> buffer.pages > 150
                  /\ Cardinality(WarningsWith("High frame count")) <= 1
            /\ ~isAnimated =>
                  /\ WarningsWith("Animated sticker detected") = {}
                  /\ WarningsWith("High frame count") = {}
                  /\ WarningsWith("Could not fully validate animated sticker properties") = {}
            /\ ErrorsWith("Animated sticker detected") = {}
            /\ ErrorsWith("High frame count") = {}
            /\ ErrorsWith("Could not fully validate animated sticker properties") = {})
    /\ [][vpc = "animated" =>
            /\ validation'.errors = validation.errors
            /\ validation'.isValid = validation.isValid
            /\ validation'.fileSize = validation.fileSize
            /\ validation'.dimensions = validation.dimensions
            /\ validation'.metadata = validation.metadata]_vars

\* 151 frames: both warnings
C28_Witness ==
    /\ NormalReport
    /\ isAnimated
    /\ buffer.pages = 151
    /\ WarningsWith("Animated sticker detected") # {}
    /\ WarningsWith("High frame count") # {}

\* the validity flags of the sub-fields of the report
SubFieldFlags ==
    {validation.fileSize.isValid, validation.dimensions.isValid,
     validation.metadata.pack.isValid, validation.metadata.author.isValid,
     validation.metadata.id.isValid, validation.metadata.categories.isValid}

\* C29: in a returned report isValid implies that every sub-field flag is
\* true; when no fault reached the catch block of validateSticker, errors is
\* non-empty exactly when some sub-field flag is false.
C29_ReportConsistency ==
    voutcome = "report" =>
        /\ validation.isValid => SubFieldFlags = {TRUE}
        /\ buffer.typed => (Len(validation.errors) > 0 <=> FALSE \in SubFieldFlags)

\* a report whose only failing sub-field is the file size
C29_Witness ==
    /\ NormalReport
    /\ ~validation.isValid
    /\ ~validation.fileSize.isValid
    /\ validation.dimensions.isValid
    /\ validation.metadata.pack.isValid /\ validation.metadata.author.isValid
    /\ validation.metadata.id.isValid /\ validation.metadata.categories.isValid
    /\ Len(validation.errors) = 1

----------------------------------------------------------------------------
(* The codec requests of every conversion. *)

\* C30: every codec request carries a duration cap of at most
\* MAX_ANIMATION_DURATION seconds and a frame rate whose frame interval,
\* 1000 / fps ms, is at least MIN_FRAME_DURATION ms.
C30_RequestsWithinLimits ==
    \A k \in 1..Len(invocations) :
        /\ invocations[k].t # NotGiven
        /\ invocations[k].t <= MAX_ANIMATION_DURATION
        /\ invocations[k].fps # NotGiven
        /\ invocations[k].fps * MIN_FRAME_DURATION <= 1000

====
